---- MODULE Spec2Model ----
(***************************************************************************)
(* Model of uberlogging (src/uberlogging/__init__.py): style resolution,   *)
(* the context renderer, the structlog event formatter, the stdlib record  *)
(* formatters and configure(), plus the example programs that log from     *)
(* several contexts.                                                       *)
(*                                                                         *)
(* Text is a sequence of atoms (TLA+ strings): <<"'", "bob", "'">> is the   *)
(* Python string 'bob' with its quotes, <<>> is the empty string.          *)
(***************************************************************************)
EXTENDS Naturals, Sequences, FiniteSets, TLC

VARIABLES
    probe,      \* the last call of a pure function: its arguments and result
    env,        \* os.environ: variable name -> "UNSET", "" or "1"
    held,       \* the caller's logger_confs / logger_confs_list objects
    frame,      \* the last configure() call: arguments as passed, outcome,
                \* the tree built
    sl,         \* structlog's global configuration
    proxy,      \* the processor chain cached in the module-level logger
    std,        \* stdlib logging's global configuration
    out,        \* the last record rendered by the installed formatter
    mpc,        \* examples/context_vars.py: position of server()
    tpc,        \* position of each handle_request task
    cvar,       \* value of ctx_request_id in each context
    lines       \* the lines logged by server() and the tasks

vars == <<probe, env, held, frame, sl, proxy, std, out, mpc, tpc, cvar, lines>>

----------------------------------------------------------------------------
(* Bounds of the model                                                     *)

MaxVars == 2        \* longest contextvars tuple
MaxKeys == 3        \* most keys in an event_dict
MaxList == 2        \* longest logger_confs_list
MaxTasks == 2       \* concurrent handle_request tasks

----------------------------------------------------------------------------
(* Text                                                                    *)

Unset == "UNSET"

RECURSIVE Join(_, _)
Join(items, sep) ==
    IF Len(items) = 0 THEN <<>>
    ELSE IF Len(items) = 1 THEN items[1]
    ELSE items[1] \o sep \o Join(Tail(items), sep)

padding == <<" ", " ", " ", " ">>

\* Python values that reach repr()/str(): strings and integers
StrVal(t) == [kind |-> "str", text |-> t]
IntVal(t) == [kind |-> "int", text |-> t]
Values == {StrVal(<<>>), StrVal(<<"bob">>), IntVal(<<"3">>)}
\* None, and the absence of a value (no default, not set in the context)
NoneVal == [kind |-> "none", text |-> <<"None">>]
NoValue == [kind |-> "novalue", text |-> <<>>]

str(val) == val.text
repr(val) == IF val.kind = "str" THEN <<"'">> \o val.text \o <<"'">> ELSE val.text

\* humanfriendly.terminal.ansi_wrap(text, color=...)
AnsiStart == {"ESC[36m", "ESC[35m"}
AnsiAtoms == AnsiStart \cup {"ESC[0m"}
ColorCode(color) == IF color = "cyan" THEN "ESC[36m" ELSE "ESC[35m"
ansi_wrap(text, color) == <<ColorCode(color)>> \o text \o <<"ESC[0m">>

HasAnsi(text) == \E i \in 1..Len(text) : text[i] \in AnsiAtoms
StripAnsi(text) == SelectSeq(text, LAMBDA a : a \notin AnsiAtoms)

----------------------------------------------------------------------------
(* Style resolution                                                        *)

Styles == {"auto", "text_auto", "json", "text_color", "text_no_color"}
ConcreteStyles == {"json", "text_color", "text_no_color"}
\* a terminal, a pipe or file, an object with no isatty() (demo.py MyStream)
Streams == {"tty", "notty", "noisatty"}
ForceVars == {"UBERLOGGING_FORCE_TEXT_COLOR", "UBERLOGGING_FORCE_TEXT_NO_COLOR",
              "UBERLOGGING_FORCE_TEXT"}
EnvVars == ForceVars \cup {"UBERLOGGING_MESSAGE_FORMAT"}
EnvValues == {Unset, "", "1"}

\* truthiness of os.environ.get(name)
EnvGet(e, name) == e[name] # Unset /\ e[name] # ""

\* try: stream.isatty() except AttributeError: False
IsATTY(stream) == stream = "tty"

DetectStyleJsonWins(e, style, stream) ==
    LET forced == IF EnvGet(e, "UBERLOGGING_FORCE_TEXT_COLOR") THEN "text_color"
                  ELSE IF EnvGet(e, "UBERLOGGING_FORCE_TEXT_NO_COLOR") THEN "text_no_color"
                  ELSE IF EnvGet(e, "UBERLOGGING_FORCE_TEXT") THEN "text_auto"
                  ELSE style
        isatty == IsATTY(stream)
    IN  IF forced \notin {"auto", "text_auto"} THEN forced
        ELSE IF ~isatty THEN "json"
        ELSE "text_color"

_detect_style(e, style, stream) ==
    LET forced == IF EnvGet(e, "UBERLOGGING_FORCE_TEXT_COLOR") THEN "text_color"
                  ELSE IF EnvGet(e, "UBERLOGGING_FORCE_TEXT_NO_COLOR") THEN "text_no_color"
                  ELSE IF EnvGet(e, "UBERLOGGING_FORCE_TEXT") THEN "text_auto"
                  ELSE style
        isatty == IsATTY(stream)
        force_text == (forced = "text_auto")
        use_json == ~(isatty \/ force_text)
        colored == isatty /\ ~use_json
    IN  IF forced \notin {"auto", "text_auto"} THEN forced
        ELSE IF use_json THEN "json"
        ELSE IF colored THEN "text_color"
        ELSE "text_no_color"

----------------------------------------------------------------------------
(* Context variables and the context renderer                              *)

\* ContextVar(name) and ContextVar(name, default=...)
RequestId == [name |-> "request_id", default |-> NoValue]
User == [name |-> "user", default |-> StrVal(<<"anon">>)]
CtxVars == {RequestId, User}
VarNames == {v.name : v \in CtxVars}
\* a context: the value each variable holds in it, NoValue when not set there
Contexts == [VarNames -> Values \cup {NoValue}]
EmptyContext == [n \in VarNames |-> NoValue]
VarTuples == UNION {[1..n -> CtxVars] : n \in 0..MaxVars}

LookupError == [kind |-> "LookupError", text |-> <<>>]

\* var.get(): the value in the current context, else the default, else LookupError
VarGet(var, c) ==
    IF c[var.name] # NoValue THEN c[var.name]
    ELSE IF var.default # NoValue THEN var.default
    ELSE LookupError

\* ContextRenderer.format_item
format_item(color, key, val) ==
    (IF color THEN ansi_wrap(<<key>>, "cyan") ELSE <<key>>)
    \o <<"=">>
    \o (IF color THEN ansi_wrap(repr(val), "magenta") ELSE repr(val))

\* the loop of render_contextvars: ctx_items after visiting vars[1..Len(vars)]
RECURSIVE CtxItems(_, _, _)
CtxItems(color, vs, c) ==
    IF Len(vs) = 0 THEN <<>>
    ELSE LET got == VarGet(vs[1], c)
         IN  (IF got = LookupError THEN <<>>
              ELSE <<format_item(color, vs[1].name, got)>>)
             \o CtxItems(color, Tail(vs), c)

RenderContextvarsNoSep(color, vs, c) == Join(CtxItems(color, vs, c), <<>>)

\* ContextRenderer.render_contextvars
render_contextvars(color, vs, c) == Join(CtxItems(color, vs, c), <<" ">>)

----------------------------------------------------------------------------
(* The structlog event formatter                                           *)

ExcVal == [kind |-> "exc", text |-> <<"ValueError()">>]
EventKeys == {"event", "exc_info", "user", "n"}
EventItems == {[key |-> k, val |-> v] : k \in EventKeys \ {"exc_info"}, v \in Values}
                  \cup {[key |-> "exc_info", val |-> ExcVal]}
\* an event_dict: its items in insertion order, no key twice
EventDicts ==
    {ed \in UNION {[1..n -> EventItems] : n \in 0..MaxKeys} :
        \A i, j \in 1..Len(ed) : ed[i].key = ed[j].key => i = j}

HasKey(ed, k) == \E i \in 1..Len(ed) : ed[i].key = k
Lookup(ed, k) == ed[CHOOSE i \in 1..Len(ed) : ed[i].key = k]
DictGet(ed, k) == IF HasKey(ed, k) THEN Lookup(ed, k).val ELSE NoneVal
DictPop(ed, k) == SelectSeq(ed, LAMBDA it : it.key # k)

RECURSIVE MapItems(_, _)
MapItems(color, items) ==
    IF Len(items) = 0 THEN <<>>
    ELSE <<format_item(color, items[1].key, items[1].val)>> \o MapItems(color, Tail(items))

KeyValueRendererKeepsExcInfo(color, event_dict) ==
    LET ev == IF HasKey(event_dict, "event") THEN str(Lookup(event_dict, "event").val) ELSE <<>>
        rest == DictPop(event_dict, "event")
        joined == Join(MapItems(color, rest), <<" ">>)
        context == IF joined # <<>> THEN padding \o joined ELSE joined
    IN  [msg |-> ev, exc_info |-> DictGet(rest, "exc_info"), extra |-> [context |-> context]]

\* KeyValueRendererWithFlatEventColors.__call__
KeyValueRenderer(color, event_dict) ==
    LET ev == IF HasKey(event_dict, "event") THEN str(Lookup(event_dict, "event").val) ELSE <<>>
        rest == DictPop(event_dict, "event")
        flat == SelectSeq(rest, LAMBDA it : it.key # "exc_info")
        joined == Join(MapItems(color, flat), <<" ">>)
        context == IF joined # <<>> THEN padding \o joined ELSE joined
    IN  [msg |-> ev, exc_info |-> DictGet(rest, "exc_info"), extra |-> [context |-> context]]

----------------------------------------------------------------------------
(* The stdlib record formatters                                            *)

\* a LogRecord: levelname, message and, from the structlog path, context
Record(levelname, msg, has_context, context) ==
    [levelname |-> levelname, message |-> msg,
     has_context |-> has_context, context |-> context]

FormatterFormatNoPad(color, contextvars, record, c) ==
    LET context == IF record.has_context THEN record.context ELSE <<>>
    IN  [levelname |-> record.levelname, message |-> record.message,
         context |-> context,
         contextvars |-> IF Len(contextvars) > 0
                         THEN <<" ">> \o render_contextvars(color, contextvars, c)
                         ELSE <<>>]

\* Formatter.format (color = FALSE) and ColoredFormatter.format (color = TRUE):
\* the record's fields as handed to the pattern substitution
FormatterFormat(color, contextvars, record, c) ==
    LET context == IF record.has_context THEN record.context ELSE <<>>
    IN  [levelname |-> record.levelname, message |-> record.message,
         context |-> context,
         contextvars |-> IF Len(contextvars) > 0
                         THEN (IF context # <<>> THEN <<" ">> ELSE padding)
                              \o render_contextvars(color, contextvars, c)
                         ELSE <<>>]

\* SeverityJsonFormatter.format with add_fields: the fields of the JSON object
JsonFormat(contextvars, record, c) ==
    [severity |-> record.levelname, levelname |-> record.levelname,
     message |-> record.message,
     context |-> IF record.has_context THEN record.context ELSE <<>>,
     contextvars |-> IF Len(contextvars) > 0
                     THEN render_contextvars(FALSE, contextvars, c)
                     ELSE <<>>]

----------------------------------------------------------------------------
(* Calls of the pure functions, arguments drawn from the bounded sets      *)

NoProbe == [op |-> "none"]
AllEnvs == [EnvVars -> EnvValues]
\* the context strings a record can carry: none (a stdlib call), or what the
\* event formatter produced
RecordContexts ==
    {[has |-> FALSE, text |-> <<>>]} \cup
    {[has |-> TRUE, text |-> KeyValueRenderer(col, ed).extra.context] :
        col \in BOOLEAN,
        ed \in {<<>>, <<[key |-> "user", val |-> StrVal(<<"bob">>)]>>}}

CallDetectStyle ==
    /\ probe = NoProbe
    /\ \E e \in AllEnvs, style \in Styles, stream \in Streams :
          probe' = [op |-> "_detect_style", env |-> e, style |-> style,
                    stream |-> stream, result |-> _detect_style(e, style, stream)]
    /\ UNCHANGED <<env, held, frame, sl, proxy, std, out, mpc, tpc, cvar, lines>>

CallRenderContextvars ==
    /\ probe = NoProbe
    /\ \E color \in BOOLEAN, vs \in VarTuples, c \in Contexts :
          probe' = [op |-> "render_contextvars", color |-> color, vars |-> vs,
                    ctx |-> c, result |-> render_contextvars(color, vs, c)]
    /\ UNCHANGED <<env, held, frame, sl, proxy, std, out, mpc, tpc, cvar, lines>>

CallKeyValueRenderer ==
    /\ probe = NoProbe
    /\ \E color \in BOOLEAN, ed \in EventDicts :
          probe' = [op |-> "KeyValueRenderer", color |-> color, event_dict |-> ed,
                    result |-> KeyValueRenderer(color, ed)]
    /\ UNCHANGED <<env, held, frame, sl, proxy, std, out, mpc, tpc, cvar, lines>>

CallFormatterFormat ==
    /\ probe = NoProbe
    /\ \E color \in BOOLEAN, vs \in VarTuples, c \in Contexts,
          rc \in RecordContexts, lvl \in {"INFO", "ERROR"} :
          LET record == Record(lvl, <<"hello">>, rc.has, rc.text)
          IN  probe' = [op |-> "Formatter.format", color |-> color, vars |-> vs,
                        ctx |-> c, record |-> record,
                        result |-> FormatterFormat(color, vs, record, c)]
    /\ UNCHANGED <<env, held, frame, sl, proxy, std, out, mpc, tpc, cvar, lines>>

----------------------------------------------------------------------------
(* configure(): the configuration tree and the two global configurations    *)

LoggerNames == {"a", "a.b"}
ConfLevels == {"DEBUG", "ERROR"}
Absent == "ABSENT"
NoName == "NONAME"
\* logger_confs: logger name -> its "level" override, Absent when not a key
LoggerConfs == [LoggerNames -> ConfLevels \cup {Absent}]
EmptyConfs == [n \in LoggerNames |-> Absent]
IsEmptyConfs(m) == \A n \in LoggerNames : m[n] = Absent
\* an entry of logger_confs_list as the caller writes it: {"name": n, "level": l}
NamedEntries == [name : LoggerNames, level : ConfLevels]
ConfLists == UNION {[1..n -> NamedEntries] : n \in 0..MaxList}

\* logging.INFO, the default root_level
INFO == 20
\* 35 has no registered name: logging.getLevelName(35) is "Level 35"
RootLevels == {INFO, 35}
\* logging.getLevelName(root_level)
getLevelName(level) == IF level = INFO THEN "INFO" ELSE "Level 35"
\* logging._checkLevel as dictConfig applies it to the root level
ValidLevelName(name) == name \in {"DEBUG", "INFO", "WARNING", "ERROR"}

Options(style, fmt, datefmt, cache, root_level, stream, contextvars, full_conf) ==
    [style |-> style, fmt |-> fmt, datefmt |-> datefmt,
     cache_structlog_loggers |-> cache, root_level |-> root_level,
     stream |-> stream, contextvars |-> contextvars, full_conf |-> full_conf]

\* the loop over logger_confs_list in _build_conf, from entry i on:
\* pop "name" from the entry (KeyError when it has none), store the rest
RECURSIVE FoldList(_, _, _)
FoldList(m, l, i) ==
    IF i > Len(l) THEN [err |-> FALSE, confs |-> m, list |-> l]
    ELSE IF l[i].name = NoName THEN [err |-> TRUE, confs |-> m, list |-> l]
    ELSE FoldList([m EXCEPT ![l[i].name] = l[i].level],
                  [l EXCEPT ![i].name = NoName], i + 1)

RECURSIVE FoldListMappingWins(_, _, _)
FoldListMappingWins(m, l, i) ==
    IF i > Len(l) THEN [err |-> FALSE, confs |-> m, list |-> l]
    ELSE IF l[i].name = NoName THEN [err |-> TRUE, confs |-> m, list |-> l]
    ELSE FoldListMappingWins(
             IF m[l[i].name] = Absent THEN [m EXCEPT ![l[i].name] = l[i].level] ELSE m,
             [l EXCEPT ![i].name = NoName], i + 1)

BuildConfMappingWins(fmt, datefmt, h, style, root_level, contextvars, stream) ==
    LET folded == FoldListMappingWins(h.logger_confs, h.logger_confs_list, 1)
    IN  [err |-> folded.err,
         held |-> [logger_confs |-> IF IsEmptyConfs(h.logger_confs)
                                    THEN h.logger_confs ELSE folded.confs,
                   logger_confs_list |-> folded.list],
         conf |-> [formatter |-> [style |-> style, fmt |-> fmt, datefmt |-> datefmt,
                                  contextvars |-> contextvars],
                   stream |-> stream,
                   root_level |-> getLevelName(root_level),
                   has_loggers |-> ~IsEmptyConfs(folded.confs),
                   loggers |-> folded.confs]]

\* _build_conf: the tree, and the caller's objects as the loop leaves them
\* (logger_confs = logger_confs or {} makes a new dict only for a falsy one)
_build_conf(fmt, datefmt, h, style, root_level, contextvars, stream) ==
    LET folded == FoldList(h.logger_confs, h.logger_confs_list, 1)
    IN  [err |-> folded.err,
         held |-> [logger_confs |-> IF IsEmptyConfs(h.logger_confs)
                                    THEN h.logger_confs ELSE folded.confs,
                   logger_confs_list |-> folded.list],
         conf |-> [formatter |-> [style |-> style, fmt |-> fmt, datefmt |-> datefmt,
                                  contextvars |-> contextvars],
                   stream |-> stream,
                   root_level |-> getLevelName(root_level),
                   has_loggers |-> ~IsEmptyConfs(folded.confs),
                   loggers |-> folded.confs]]

\* _configure_structlog: structlog.configure(processors=..., cache_logger_on_first_use=...)
_configure_structlog(colored, cache_loggers) ==
    [configured |-> TRUE, colored |-> colored, cache |-> cache_loggers]

\* _configure_stdliblog: dictConfig(conf) configures formatters, handlers and
\* loggers, then the root logger; an unknown root level raises ValueError
\* there, the root logger keeping its handler and formatter
_configure_stdliblog(conf, t) ==
    IF ValidLevelName(conf.root_level)
    THEN [outcome |-> "ok",
          std |-> [configured |-> TRUE, formatter |-> conf.formatter,
                   stream |-> conf.stream, root_level |-> conf.root_level,
                   loggers |-> conf.loggers]]
    ELSE [outcome |-> "ValueError",
          std |-> [t EXCEPT !.loggers = conf.loggers]]

NoConf == [formatter |-> [style |-> "none", fmt |-> "", datefmt |-> "",
                          contextvars |-> <<>>],
           stream |-> "none", root_level |-> "none",
           has_loggers |-> FALSE, loggers |-> EmptyConfs]

\* the full_conf keyword argument: not passed, or a complete tree of the caller
NoFullConf == [given |-> FALSE, tree |-> NoConf]
FullConf ==
    [given |-> TRUE,
     tree |-> [formatter |-> [style |-> "text_no_color", fmt |-> "{message}",
                              datefmt |-> "%H:%M:%S", contextvars |-> <<>>],
               stream |-> "notty", root_level |-> "DEBUG",
               has_loggers |-> FALSE, loggers |-> EmptyConfs]]

ConfigureStdlibFirst(o, h, e, s, t) ==
    IF o.full_conf.given
    THEN [outcome |-> "TypeError", actual_style |-> "none", conf |-> NoConf,
          held |-> h, sl |-> s, std |-> t]
    ELSE
    LET actual_style == _detect_style(e, o.style, o.stream)
        colored == (actual_style = "text_color")
        fmt == IF EnvGet(e, "UBERLOGGING_MESSAGE_FORMAT")
               THEN e["UBERLOGGING_MESSAGE_FORMAT"] ELSE o.fmt
        built == _build_conf(fmt, o.datefmt, h, actual_style, o.root_level,
                             o.contextvars, o.stream)
        loaded == _configure_stdliblog(built.conf, t)
    IN  IF built.err
        THEN [outcome |-> "KeyError", actual_style |-> actual_style, conf |-> NoConf,
              held |-> built.held, sl |-> s, std |-> t]
        ELSE [outcome |-> loaded.outcome, actual_style |-> actual_style,
              conf |-> built.conf, held |-> built.held,
              sl |-> IF loaded.outcome = "ok"
                     THEN _configure_structlog(colored, o.cache_structlog_loggers)
                     ELSE s,
              std |-> loaded.std]

\* configure(): what the call leaves behind, given the options o, the caller's
\* objects h, the environment e and the two global configurations s and t.
\* The signature has no full_conf parameter: passing one raises TypeError
\* before the body runs.
configure(o, h, e, s, t) ==
    IF o.full_conf.given
    THEN [outcome |-> "TypeError", actual_style |-> "none", conf |-> NoConf,
          held |-> h, sl |-> s, std |-> t]
    ELSE
    LET actual_style == _detect_style(e, o.style, o.stream)
        colored == (actual_style = "text_color")
        fmt == IF EnvGet(e, "UBERLOGGING_MESSAGE_FORMAT")
               THEN e["UBERLOGGING_MESSAGE_FORMAT"] ELSE o.fmt
        built == _build_conf(fmt, o.datefmt, h, actual_style, o.root_level,
                             o.contextvars, o.stream)
        loaded == _configure_stdliblog(built.conf, t)
    IN  IF built.err
        THEN [outcome |-> "KeyError", actual_style |-> actual_style, conf |-> NoConf,
              held |-> built.held, sl |-> s, std |-> t]
        ELSE [outcome |-> loaded.outcome, actual_style |-> actual_style,
              conf |-> built.conf, held |-> built.held,
              sl |-> _configure_structlog(colored, o.cache_structlog_loggers),
              std |-> loaded.std]

----------------------------------------------------------------------------
(* The process: environment, configure() calls, logging calls               *)

Who == 0..MaxTasks      \* 0 is the main context, t > 0 the context of task t

NoFrame == [called |-> FALSE,
            opts |-> Options("auto", "", "", TRUE, INFO, "none", <<>>, NoFullConf),
            pre |-> [logger_confs |-> EmptyConfs, logger_confs_list |-> <<>>],
            outcome |-> "none", actual_style |-> "none", conf |-> NoConf]
NoStructlog == [configured |-> FALSE, colored |-> FALSE, cache |-> FALSE]
NoStdlib == [configured |-> FALSE, formatter |-> NoConf.formatter,
             stream |-> "none", root_level |-> "none", loggers |-> EmptyConfs]
NoProxy == [cached |-> FALSE, colored |-> FALSE]
NoOutput == [written |-> FALSE, style |-> "none", path |-> "none",
             fields |-> [levelname |-> "", message |-> <<>>, context |-> <<>>,
                         contextvars |-> <<>>]]
CleanEnv == [v \in EnvVars |-> Unset]

default_fmt == "default_fmt"
default_datefmt == "%Y-%m-%dT%H:%M:%S"

\* one call of configure(**o) with the caller's held objects
Configure(o) ==
    LET r == configure(o, held, env, sl, std)
    IN  /\ frame' = [called |-> TRUE, opts |-> o, pre |-> held,
                     outcome |-> r.outcome, actual_style |-> r.actual_style,
                     conf |-> r.conf]
        /\ held' = r.held
        /\ sl' = r.sl
        /\ std' = r.std
        /\ UNCHANGED <<probe, env, proxy, out, mpc, tpc, cvar, lines>>

ConfOptions ==
    {Options(style, default_fmt, default_datefmt, TRUE, root_level, "notty", <<>>, fc) :
        style \in {"text_color", "json"}, root_level \in RootLevels,
        fc \in {NoFullConf, FullConf}}

ConfigureConfs == \E o \in ConfOptions : Configure(o)

\* demo.py: os.environ[name] = "1" for one forcing variable, later del os.environ[name]
SetEnv ==
    /\ \E name \in ForceVars :
          \/ /\ \A other \in ForceVars : env[other] = Unset
             /\ env' = [env EXCEPT ![name] = "1"]
          \/ /\ env[name] # Unset
             /\ env' = [env EXCEPT ![name] = Unset]
    /\ UNCHANGED <<probe, held, frame, sl, proxy, std, out, mpc, tpc, cvar, lines>>

LogOptions ==
    {Options(style, default_fmt, default_datefmt, cache, INFO, stream, cv, NoFullConf) :
        style \in Styles, cache \in BOOLEAN, stream \in {"tty", "notty"},
        cv \in {<<RequestId>>}}

ConfigureStyle == \E o \in LogOptions : Configure(o)

\* ctxvar.set(value) in context w
ContextVarSetEverywhere(c, w, name, value) ==
    [x \in DOMAIN c |-> [c[x] EXCEPT ![name] = value]]

ContextVarSet(c, w, name, value) == [c EXCEPT ![w][name] = value]

SetContextVar ==
    /\ cvar[0]["request_id"] = NoValue
    /\ cvar' = ContextVarSet(cvar, 0, "request_id", StrVal(<<"bob">>))
    /\ UNCHANGED <<probe, env, held, frame, sl, proxy, std, mpc, tpc, out, lines>>

\* the installed handler's formatter applied to a record, in context c
Render(t, path, record, c) ==
    [written |-> TRUE, style |-> t.formatter.style, path |-> path,
     fields |-> IF t.formatter.style = "json"
                THEN JsonFormat(t.formatter.contextvars, record, c)
                ELSE FormatterFormat(t.formatter.style = "text_color",
                                t.formatter.contextvars, record, c)]

\* structlog: the chain a bound logger runs. The lazy proxy binds with the
\* processors configured at its first use and, with cache_logger_on_first_use,
\* keeps that bound logger for every later call.
ChainColored(s, p) == IF p.cached THEN p.colored ELSE s.colored
ProxyAfterUse(s, p) ==
    IF ~p.cached /\ s.cache THEN [cached |-> TRUE, colored |-> s.colored] ELSE p

LogEvents ==
    {<<[key |-> "event", val |-> StrVal(<<"hello">>)]>>,
     <<[key |-> "event", val |-> StrVal(<<"hello">>)],
       [key |-> "user", val |-> StrVal(<<"bob">>)]>>}

\* logger.info(event, **kw) / logger.error(event, **kw) on the module-level
\* structlog logger
LogStructlog ==
    /\ sl.configured /\ std.configured
    /\ \E lvl \in {"INFO", "ERROR"}, ed \in LogEvents :
          LET ev == KeyValueRenderer(ChainColored(sl, proxy), ed)
              record == Record(lvl, ev.msg, TRUE, ev.extra.context)
          IN  out' = Render(std, "structlog", record, cvar[0])
    /\ proxy' = ProxyAfterUse(sl, proxy)
    /\ UNCHANGED <<probe, env, held, frame, sl, std, mpc, tpc, cvar, lines>>

\* logging.getLogger(name).warning(msg)
LogStdlib ==
    /\ std.configured
    /\ out' = Render(std, "stdlib", Record("WARNING", <<"hello">>, FALSE, <<>>), cvar[0])
    /\ UNCHANGED <<probe, env, held, frame, sl, proxy, std, mpc, tpc, cvar, lines>>

----------------------------------------------------------------------------
(* examples/context_vars.py and the contextvars part of demo.py: server()   *)
(* logs, starts the handle_request tasks, each in a copy of the current     *)
(* context, waits for them and logs again                                   *)

Tasks == 1..MaxTasks
\* the request id task t is given ("Zf1glE", "YcEf73", ...)
RequestIdOf(t) == StrVal(<<"req", ToString(t)>>)

\* logger.info(event) from context w: the line the installed formatter renders
LogLine(w, event) ==
    LET ev == KeyValueRenderer(ChainColored(sl, proxy),
                               <<[key |-> "event", val |-> StrVal(<<event>>)]>>)
        record == Record("INFO", ev.msg, TRUE, ev.extra.context)
    IN  [who |-> w, fields |-> Render(std, "structlog", record, cvar[w]).fields]

ServerStart ==
    /\ mpc = "start"
    /\ lines' = Append(lines, LogLine(0, "Main server handling requests"))
    /\ mpc' = "spawn"
    /\ UNCHANGED <<probe, env, held, frame, sl, proxy, std, out, tpc, cvar>>

\* asyncio.create_task(handle_request(id)) / copy_context(): the task gets a
\* copy of the creating context
CreateTask(t) ==
    /\ mpc = "spawn"
    /\ tpc[t] = "new"
    /\ \A u \in Tasks : u < t => tpc[u] # "new"
    /\ tpc' = [tpc EXCEPT ![t] = "created"]
    /\ cvar' = [cvar EXCEPT ![t] = cvar[0]]
    /\ UNCHANGED <<probe, env, held, frame, sl, proxy, std, out, mpc, lines>>

\* await asyncio.wait(tasks)
ServerWait ==
    /\ mpc = "spawn"
    /\ \A t \in Tasks : tpc[t] # "new"
    /\ mpc' = "wait"
    /\ UNCHANGED <<probe, env, held, frame, sl, proxy, std, out, tpc, cvar, lines>>

\* ctx_request_id.set(request_id)
TaskSet(t) ==
    /\ tpc[t] = "created"
    /\ cvar' = ContextVarSet(cvar, t, "request_id", RequestIdOf(t))
    /\ tpc' = [tpc EXCEPT ![t] = "set"]
    /\ UNCHANGED <<probe, env, held, frame, sl, proxy, std, out, mpc, lines>>

\* logger.info("Handling request"), then (demo.py) logger.info("... finishing request")
TaskLog(t) ==
    /\ tpc[t] \in {"set", "logged"}
    /\ lines' = Append(lines, LogLine(t, "Handling request"))
    /\ tpc' = [tpc EXCEPT ![t] = IF tpc[t] = "set" THEN "logged" ELSE "done"]
    /\ UNCHANGED <<probe, env, held, frame, sl, proxy, std, out, mpc, cvar>>

ServerDone ==
    /\ mpc = "wait"
    /\ \A t \in Tasks : tpc[t] = "done"
    /\ lines' = Append(lines, LogLine(0, "Main server done"))
    /\ mpc' = "done"
    /\ UNCHANGED <<probe, env, held, frame, sl, proxy, std, out, tpc, cvar>>

----------------------------------------------------------------------------
(* Specifications                                                          *)

NoHeld == [logger_confs |-> EmptyConfs, logger_confs_list |-> <<>>]

PureInit == probe = NoProbe
ProcessInit ==
    /\ env = CleanEnv
    /\ held = NoHeld
    /\ frame = NoFrame
    /\ sl = NoStructlog
    /\ proxy = NoProxy
    /\ std = NoStdlib
    /\ out = NoOutput
TasksInit ==
    /\ mpc = "start"
    /\ tpc = [t \in Tasks |-> "new"]
    /\ cvar = [w \in Who |-> EmptyContext]
    /\ lines = <<>>

\* the pure functions on every argument of the bounded sets
Init == PureInit /\ ProcessInit /\ TasksInit
Next ==
    \/ CallDetectStyle
    \/ CallRenderContextvars
    \/ CallKeyValueRenderer
    \/ CallFormatterFormat
Spec == Init /\ [][Next]_vars

\* configure() called again and again with the logger_confs and
\* logger_confs_list objects the caller holds, with root levels and full_conf;
\* the environment is fixed for the run, with or without a message-format override
InitConf ==
    /\ PureInit /\ TasksInit
    /\ env \in {CleanEnv, [CleanEnv EXCEPT !["UBERLOGGING_MESSAGE_FORMAT"] = "1"]}
    /\ \E m \in LoggerConfs, l \in ConfLists :
          held = [logger_confs |-> m, logger_confs_list |-> l]
    /\ frame = NoFrame
    /\ sl = NoStructlog
    /\ proxy = NoProxy
    /\ std = NoStdlib
    /\ out = NoOutput
NextConf == ConfigureConfs
SpecConf == InitConf /\ [][NextConf]_vars

\* configure() called with styles, streams and context variables, between
\* changes of the environment and logging calls
NextLog == SetEnv \/ ConfigureStyle \/ SetContextVar \/ LogStructlog \/ LogStdlib
SpecLog == Init /\ [][NextLog]_vars

\* examples/context_vars.py: uberlogging.configure(contextvars=(ctx_request_id,))
\* on a terminal or a pipe, then asyncio.run(server())
ExampleConfigured(stream) ==
    configure(Options("auto", default_fmt, default_datefmt, TRUE, INFO, stream,
                      <<RequestId>>, NoFullConf),
              NoHeld, CleanEnv, NoStructlog, NoStdlib)
InitTasks ==
    /\ PureInit /\ TasksInit
    /\ env = CleanEnv
    /\ held = NoHeld
    /\ frame = NoFrame
    /\ proxy = NoProxy
    /\ out = NoOutput
    /\ \E stream \in {"tty", "notty"} :
          /\ sl = ExampleConfigured(stream).sl
          /\ std = ExampleConfigured(stream).std
NextTasks ==
    \/ ServerStart
    \/ \E t \in Tasks : CreateTask(t)
    \/ ServerWait
    \/ \E t \in Tasks : TaskSet(t)
    \/ \E t \in Tasks : TaskLog(t)
    \/ ServerDone
SpecTasks == InitTasks /\ [][NextTasks]_vars

----------------------------------------------------------------------------
(* Properties                                                              *)

NonEmpty(e, name) == e[name] \notin {Unset, ""}
Interactive(stream) == stream = "tty"

StyleByPrecedence(e, style, stream) ==
    CASE NonEmpty(e, "UBERLOGGING_FORCE_TEXT_COLOR") -> "text_color"
      [] /\ ~NonEmpty(e, "UBERLOGGING_FORCE_TEXT_COLOR")
         /\ NonEmpty(e, "UBERLOGGING_FORCE_TEXT_NO_COLOR") -> "text_no_color"
      [] /\ ~NonEmpty(e, "UBERLOGGING_FORCE_TEXT_COLOR")
         /\ ~NonEmpty(e, "UBERLOGGING_FORCE_TEXT_NO_COLOR")
         /\ NonEmpty(e, "UBERLOGGING_FORCE_TEXT") ->
            IF Interactive(stream) THEN "text_color" ELSE "text_no_color"
      [] OTHER ->
            IF style \in ConcreteStyles THEN style
            ELSE IF style = "text_auto"
                 THEN (IF Interactive(stream) THEN "text_color" ELSE "text_no_color")
                 ELSE (IF Interactive(stream) THEN "text_color" ELSE "json")

\* C1: for every requested style, every setting of the three forcing
\* variables and every kind of stream, _detect_style returns the style the
\* documented precedence gives, and that style is always concrete.
C1_StylePrecedence ==
    probe.op = "_detect_style" =>
        /\ probe.result = StyleByPrecedence(probe.env, probe.style, probe.stream)
        /\ probe.result \in ConcreteStyles

\* FORCE_TEXT alone overrides an explicit json request on a stream without isatty
C1_Witness ==
    /\ probe.op = "_detect_style"
    /\ probe.style = "json"
    /\ probe.stream = "noisatty"
    /\ probe.env["UBERLOGGING_FORCE_TEXT"] = "1"
    /\ probe.env["UBERLOGGING_FORCE_TEXT_COLOR"] = ""
    /\ probe.env["UBERLOGGING_FORCE_TEXT_NO_COLOR"] = Unset
    /\ probe.result = "text_no_color"

\* key=repr(value), each side wrapped in its color when coloring is on
Token(color, key, val) ==
    IF color
    THEN <<"ESC[36m", key, "ESC[0m", "=", "ESC[35m">> \o repr(val) \o <<"ESC[0m">>
    ELSE <<key, "=">> \o repr(val)

\* tokens joined by single spaces
RECURSIVE Spaced(_)
Spaced(tokens) ==
    IF tokens = <<>> THEN <<>>
    ELSE IF Len(tokens) = 1 THEN tokens[1]
    ELSE tokens[1] \o <<" ">> \o Spaced(Tail(tokens))

FlatKeys(ed) == SelectSeq(ed, LAMBDA it : it.key \notin {"event", "exc_info"})
EventTokens(color, ed) ==
    [i \in 1..Len(FlatKeys(ed)) |-> Token(color, FlatKeys(ed)[i].key, FlatKeys(ed)[i].val)]

\* C6: the event formatter's message is the string form of the value under
\* "event"; its context is one key=repr(value) token per remaining key other
\* than exc_info, in insertion order, joined by single spaces and prefixed by
\* the four-space padding exactly when there is a token; exc_info is passed
\* through untouched (None when absent).
C6_EventFormatter ==
    probe.op = "KeyValueRenderer" =>
        LET ed == probe.event_dict
            r == probe.result
            tokens == EventTokens(probe.color, ed)
        IN  /\ \A i \in 1..Len(ed) : ed[i].key = "event" => r.msg = ed[i].val.text
            /\ r.extra.context = IF Len(tokens) > 0
                                  THEN <<" ", " ", " ", " ">> \o Spaced(tokens)
                                  ELSE <<>>
            /\ \A i \in 1..Len(ed) : ed[i].key = "exc_info" => r.exc_info = ed[i].val
            /\ (\A i \in 1..Len(ed) : ed[i].key # "exc_info") => r.exc_info = NoneVal

\* a non-string event, exc_info between two flattened keys
C6_Witness ==
    /\ probe.op = "KeyValueRenderer"
    /\ ~probe.color
    /\ probe.event_dict = <<[key |-> "user", val |-> StrVal(<<"bob">>)],
                            [key |-> "exc_info", val |-> ExcVal],
                            [key |-> "n", val |-> IntVal(<<"3">>)]>>
    /\ probe.result.extra.context =
           <<" ", " ", " ", " ", "user", "=", "'", "bob", "'", " ", "n", "=", "3">>
    /\ probe.result.exc_info = ExcVal

\* the variables of a tuple that are set in context c, in configured order
SetVars(vs, c) == SelectSeq(vs, LAMBDA v : c[v.name] # NoValue)
\* the variables whose lookup yields a value: set, or created with a default
YieldingVars(vs, c) ==
    SelectSeq(vs, LAMBDA v : c[v.name] # NoValue \/ v.default # NoValue)
Yielded(v, c) == IF c[v.name] # NoValue THEN c[v.name] ELSE v.default

\* C7 as claimed: one token per set variable, an unset variable contributes
\* nothing (coloring aside).
C7_Original ==
    probe.op = "render_contextvars" =>
        StripAnsi(probe.result) =
            Spaced([i \in 1..Len(SetVars(probe.vars, probe.ctx)) |->
                      Token(FALSE, SetVars(probe.vars, probe.ctx)[i].name,
                            probe.ctx[SetVars(probe.vars, probe.ctx)[i].name])])

\* C7 (amended): render_contextvars returns one name=repr(value) token per
\* variable whose lookup yields a value (the value set in the context, or the
\* default of an unset variable created with one), in configured order, joined
\* by single spaces; an unset variable without a default contributes nothing;
\* a variable set to an empty value still contributes; the result is empty
\* when no lookup yields a value.
C7_RenderContextvars ==
    probe.op = "render_contextvars" =>
        LET ys == YieldingVars(probe.vars, probe.ctx)
        IN  probe.result =
                Spaced([i \in 1..Len(ys) |->
                          Token(probe.color, ys[i].name, Yielded(ys[i], probe.ctx))])

\* request_id set to the empty string, user unset and falling back to its default
C7_Witness ==
    /\ probe.op = "render_contextvars"
    /\ ~probe.color
    /\ probe.vars = <<RequestId, User>>
    /\ probe.ctx["request_id"] = StrVal(<<>>)
    /\ probe.ctx["user"] = NoValue
    /\ probe.result = <<"request_id", "=", "'", "'", " ", "user", "=", "'", "anon", "'">>

\* C9: Formatter.format leaves record.context as it is, or sets it to the
\* empty string when absent; contextvars is the empty string when no context
\* variables are configured, otherwise the rendered variables prefixed with
\* one space when context is non-empty and with the padding when it is empty.
C9_TextFormatterFields ==
    probe.op = "Formatter.format" =>
        LET rec == probe.record
            r == probe.result
            ys == YieldingVars(probe.vars, probe.ctx)
            rendered == Spaced([i \in 1..Len(ys) |->
                                  Token(probe.color, ys[i].name, Yielded(ys[i], probe.ctx))])
        IN  /\ rec.has_context => r.context = rec.context
            /\ ~rec.has_context => r.context = <<>>
            /\ probe.vars = <<>> => r.contextvars = <<>>
            /\ (probe.vars # <<>> /\ r.context # <<>>) =>
                   r.contextvars = <<" ">> \o rendered
            /\ (probe.vars # <<>> /\ r.context = <<>>) =>
                   r.contextvars = <<" ", " ", " ", " ">> \o rendered

\* a stdlib record (no context attribute) with request_id configured and set
C9_Witness ==
    /\ probe.op = "Formatter.format"
    /\ ~probe.color
    /\ ~probe.record.has_context
    /\ probe.vars = <<RequestId>>
    /\ probe.ctx["request_id"] = StrVal(<<"bob">>)
    /\ probe.result.context = <<>>
    /\ probe.result.contextvars =
           <<" ", " ", " ", " ", "request_id", "=", "'", "bob", "'">>

\* the overlay of a mapping with list entries taken in order: for each name
\* the level of the last entry carrying it, else the mapping's
LastIndex(l, n) == CHOOSE i \in 1..Len(l) :
                       /\ l[i].name = n
                       /\ \A j \in 1..Len(l) : l[j].name = n => j <= i
Overlay(m, l) ==
    [n \in LoggerNames |->
        IF \E i \in 1..Len(l) : l[i].name = n THEN l[LastIndex(l, n)].level ELSE m[n]]

LoggersOf(o, m, l) ==
    _build_conf(o.fmt, o.datefmt, [logger_confs |-> m, logger_confs_list |-> l],
                "json", o.root_level, o.contextvars, o.stream).conf.loggers

\* C3: the loggers section of the built tree is the logger_confs mapping
\* overlaid with the logger_confs_list entries in list order (a later entry
\* replaces an earlier value and the mapping's), built without error; a lone
\* list entry for a name gives the same section as the mapping with that key.
C3_LoggerOverrides ==
    (frame.called /\ ~frame.opts.full_conf.given
        /\ \A i \in 1..Len(frame.pre.logger_confs_list) :
               frame.pre.logger_confs_list[i].name # NoName) =>
        /\ frame.outcome # "KeyError"
        /\ frame.conf.loggers =
               Overlay(frame.pre.logger_confs, frame.pre.logger_confs_list)
        /\ frame.conf.has_loggers =
               (\E n \in LoggerNames :
                   Overlay(frame.pre.logger_confs, frame.pre.logger_confs_list)[n] # Absent)
        /\ \A n \in LoggerNames, lv \in ConfLevels :
               LoggersOf(frame.opts, EmptyConfs, <<[name |-> n, level |-> lv]>>)
                   = LoggersOf(frame.opts, [EmptyConfs EXCEPT ![n] = lv], <<>>)

\* "a.b" in the mapping and twice in the list: the last list entry stands
C3_Witness ==
    /\ frame.called
    /\ frame.outcome = "ok"
    /\ frame.pre.logger_confs = [EmptyConfs EXCEPT !["a.b"] = "DEBUG", !["a"] = "ERROR"]
    /\ frame.pre.logger_confs_list = <<[name |-> "a.b", level |-> "DEBUG"],
                                       [name |-> "a.b", level |-> "ERROR"]>>
    /\ frame.conf.loggers = [EmptyConfs EXCEPT !["a.b"] = "ERROR", !["a"] = "ERROR"]
    /\ std.loggers = frame.conf.loggers

\* C2: after a completed configure() call, calling it again with the same
\* options and the same logger_confs / logger_confs_list objects, under the
\* same environment, completes and leaves the same effective configuration.
C2_Idempotent ==
    (frame.called /\ frame.outcome = "ok") =>
        LET again == configure(frame.opts, held, env, sl, std)
        IN  /\ again.outcome = "ok"
            /\ again.sl = sl
            /\ again.std = std

\* C4: when full_conf is supplied, configure() completes, the tree handed to
\* dictConfig is the caller's tree and structlog is configured.
C4_FullConfVerbatim ==
    (frame.called /\ frame.opts.full_conf.given) =>
        /\ frame.outcome = "ok"
        /\ frame.conf = frame.opts.full_conf.tree
        /\ sl.configured

\* C10: configure() reconfigures structlog first and stdlib logging second:
\* a root level dictConfig rejects surfaces as ValueError, and structlog then
\* already carries the configuration of the failed call.
C10_NotTransactional ==
    (frame.called /\ ~frame.opts.full_conf.given /\ frame.outcome # "KeyError") =>
        /\ frame.outcome = "ValueError" <=> frame.opts.root_level # INFO
        /\ sl = [configured |-> TRUE,
                  colored |-> (frame.actual_style = "text_color"),
                  cache |-> frame.opts.cache_structlog_loggers]
        /\ frame.outcome = "ok" => std.formatter = frame.conf.formatter

\* a failed call for text_color after a successful one for json: structlog
\* colors its events, the json formatter is still installed
C10_Witness ==
    /\ frame.called
    /\ frame.outcome = "ValueError"
    /\ frame.actual_style = "text_color"
    /\ sl.configured /\ sl.colored
    /\ std.configured /\ std.formatter.style = "json"

\* C5: whenever the installed formatter is the json one, the rendered record
\* has severity equal to its level name and neither its context nor its
\* contextvars field carries ANSI codes.
C5_JsonNoAnsi ==
    (out.written /\ out.style = "json") =>
        /\ out.fields.severity = out.fields.levelname
        /\ ~HasAnsi(out.fields.context)
        /\ ~HasAnsi(out.fields.contextvars)

\* the variable tokens a line shows: its contextvars field without coloring
\* and padding
Shown(line) == SelectSeq(StripAnsi(line.fields.contextvars), LAMBDA a : a # " ")

\* C8: every line shows the request id of the task that emitted it, and the
\* lines of the parent context show no value.
C8_NoLeak ==
    \A i \in 1..Len(lines) :
        /\ lines[i].who = 0 => Shown(lines[i]) = <<>>
        /\ lines[i].who # 0 =>
               Shown(lines[i]) = <<"request_id", "=">> \o repr(RequestIdOf(lines[i].who))

\* the tasks' lines interleaved (2, 1, 2, 1), the parent's last line after them
C8_Witness ==
    /\ mpc = "done"
    /\ Len(lines) >= 6
    /\ lines[2].who = 2 /\ lines[3].who = 1 /\ lines[4].who = 2 /\ lines[5].who = 1
    /\ lines[Len(lines)].who = 0
    /\ Shown(lines[3]) = <<"request_id", "=", "'", "req", "1", "'">>

====
